---- MODULE Spec2Model ----
(***************************************************************************)
(* Aggregation cache and rate-limit mitigation layer of the dashboard      *)
(* server: the TTL result cache with in-flight de-duplication              *)
(* (fetchClientMetrics), the HeyReach per-campaign stats warmer            *)
(* (refreshHeyReachPerCampaignStats), withRetry, and the filtered replies  *)
(* stream cache (EmailBisonService.getFilteredRepliesStreamPage).          *)
(*                                                                         *)
(* Granularity: Node runs one task to completion, then drains the          *)
(* microtask queue, before the next task (an HTTP request, an upstream     *)
(* response, a timer) starts.  One action is one such task together with   *)
(* the promise continuations it releases.  Time is a discrete clock; one   *)
(* tick stands for an arbitrary span of Date.now().                        *)
(***************************************************************************)
EXTENDS Integers, Sequences, FiniteSets, Bags, TLC

VARIABLES
    now,        \* Date.now(), in ticks
    cache,      \* dashboard-server.ts: cache (Map key -> CacheEntry)
    inFlight,   \* dashboard-server.ts: inFlight (Map key -> promise)
    promises,   \* the pending promises p of fetchClientMetrics, by creation number
    created,    \* how many promises p have been created
    callers,    \* HTTP requests that called fetchClientMetrics
    retry,      \* one activation of withRetry
    heyreachStatsCache, \* dashboard-server.ts: heyreachStatsCache (Map key -> entry)
    refreshes,  \* the running activations of refreshHeyReachPerCampaignStats
    refreshed,  \* how many refreshes have been started
    lastStart,  \* per stats key, when its latest refresh was started (0: never)
    bearerToken, \* the HeyReach bearerToken of the client's config ("" if unset)
    repliesCache, \* slack.service.ts: repliesCache (Map key -> RepliesCacheEntry object)
    entries,    \* the RepliesCacheEntry objects created so far, by creation number
    calls,      \* activations of getFilteredRepliesStreamPage
    rawRequests, \* the bag of <<entry object, raw page index>> requests the upstream served
    feed,       \* the upstream /api/replies feed: raw pages, newest first
    refreshSeq, \* app.js: refreshSeq
    runs,       \* the activations of refresh() in the browser, by start order
    ui          \* what the dashboard page shows, and the refresh button

cacheVars == <<cache, inFlight, promises, created, callers>>

statsVars == <<heyreachStatsCache, refreshes, refreshed, lastStart, bearerToken>>

repliesVars == <<repliesCache, entries, calls, rawRequests, feed>>

pageVars == <<refreshSeq, runs, ui>>

vars == <<now, cacheVars, retry, statsVars, repliesVars, pageVars>>

\* What the actions of one component leave alone.
NotCache == <<retry, statsVars, repliesVars, pageVars>>
NotRetry == <<now, cacheVars, statsVars, repliesVars, pageVars>>
NotStats == <<cacheVars, retry, repliesVars, pageVars>>
NotReplies == <<cacheVars, retry, statsVars, pageVars>>
NotPage == <<now, cacheVars, retry, statsVars, repliesVars>>

(***************************************************************************)
(* Bounds of the model.                                                    *)
(***************************************************************************)
MaxTime == 2
MaxCallers == 2
MaxPromises == 2

Callers == 1..MaxCallers

\* cacheTtlMs, in ticks
CacheTtl == 1

(***************************************************************************)
(* clients.config.ts: the configured clients and their enabled platforms.  *)
(***************************************************************************)
PlatformOrder == <<"instantly", "emailbison", "heyreach">>

\* client1 has its Instantly and HeyReach keys set; no other client is configured.
getActiveClients == {"client1"}

EnabledPlatforms == {"instantly", "heyreach"}

\* Parameter records the route handlers pass to fetchClientMetrics.  The
\* lifetime window is requested by /api/summary with isLifetime = TRUE and
\* by /api/debug/reconcile without isLifetime.
RequestParams ==
    { [clientId |-> "client1", startDate |-> "d-6", endDate |-> "d0", days |-> 7,
       isLifetime |-> FALSE, status |-> "active", includeHeyReachStats |-> FALSE],
      [clientId |-> "client1", startDate |-> "2023-01-01", endDate |-> "d0", days |-> 3650,
       isLifetime |-> TRUE, status |-> "active", includeHeyReachStats |-> FALSE],
      [clientId |-> "client1", startDate |-> "2023-01-01", endDate |-> "d0", days |-> 3650,
       isLifetime |-> FALSE, status |-> "active", includeHeyReachStats |-> FALSE],
      [clientId |-> "nobody", startDate |-> "d-6", endDate |-> "d0", days |-> 7,
       isLifetime |-> FALSE, status |-> "active", includeHeyReachStats |-> FALSE] }

getCacheKey(p) ==
    <<p.clientId, p.startDate, p.endDate, p.days, p.status,
      IF p.includeHeyReachStats THEN "heyreachStats=1" ELSE "heyreachStats=0">>

Keys == { getCacheKey(p) : p \in RequestParams }

NoParams == [clientId |-> "", startDate |-> "", endDate |-> "", days |-> 0,
             isLifetime |-> FALSE, status |-> "", includeHeyReachStats |-> FALSE]

\* A ClientMetricsResult: which promise built it, the platforms whose metrics it
\* holds, and the Instantly window it was built with.  NullResult is the null
\* returned for an unknown client.
NullResult == [promise |-> 0, metrics |-> {}, instLifetime |-> FALSE]

IdleCaller == [state |-> "idle", promise |-> 0, result |-> NullResult]

(***************************************************************************)
(* fetchClientMetrics                                                      *)
(***************************************************************************)
Delete(map, k) == [x \in (DOMAIN map) \ {k} |-> map[x]]

Set(map, k, v) == [x \in (DOMAIN map) \cup {k} |-> IF x = k THEN v ELSE map[x]]

existingPromise_NoDedupe(k) == 0

\* const existingPromise = inFlight.get(inflightKey)
existingPromise(k) == IF k \in DOMAIN inFlight THEN inFlight[k] ELSE 0

cacheLive_NoExpiry(k) == k \in DOMAIN cache

\* cached && cached.expiresAt > Date.now()
cacheLive(k) == k \in DOMAIN cache /\ cache[k].expiresAt > now

Running(f) == f \in DOMAIN promises

\* The enabled platform blocks of the body, in source order.
PlatformSteps == SelectSeq(PlatformOrder, LAMBDA pl : pl \in EnabledPlatforms)

IndexOf(seq, x) == CHOOSE i \in 1..Len(seq) : seq[i] = x

NextPlatform(pc) ==
    IF IndexOf(PlatformSteps, pc) < Len(PlatformSteps)
    THEN PlatformSteps[IndexOf(PlatformSteps, pc) + 1]
    ELSE "settled"

\* A request handler calls fetchClientMetrics(p).
Call(c, p) ==
    /\ callers[c].state = "idle"
    /\ LET k == getCacheKey(p)
           me == IdleCaller
       IN  IF existingPromise(k) # 0
           THEN \* if (existingPromise) return existingPromise
                /\ callers' = [callers EXCEPT ![c] =
                        [me EXCEPT !.state = "waiting", !.promise = existingPromise(k)]]
                /\ UNCHANGED <<cache, inFlight, promises, created, NotCache>>
           ELSE IF cacheLive(k)
           THEN \* the body returns cached.value before its first await; the
                \* registry entry is set and deleted within the same task
                /\ callers' = [callers EXCEPT ![c] =
                        [me EXCEPT !.state = "done", !.result = cache[k].value]]
                /\ UNCHANGED <<cache, inFlight, promises, created, NotCache>>
           ELSE IF p.clientId \notin getActiveClients
           THEN \* if (!entry) return null
                /\ callers' = [callers EXCEPT ![c] =
                        [me EXCEPT !.state = "done"]]
                /\ UNCHANGED <<cache, inFlight, promises, created, NotCache>>
           ELSE \* the body reaches its first upstream await; inFlight.set(inflightKey, p)
                /\ created < MaxPromises
                /\ created' = created + 1
                /\ promises' = Set(promises, created + 1,
                        [key |-> k, params |-> p, pc |-> PlatformSteps[1], metrics |-> {}])
                /\ inFlight' = Set(inFlight, k, created + 1)
                /\ callers' = [callers EXCEPT ![c] =
                        [me EXCEPT !.state = "waiting", !.promise = created + 1]]
                /\ UNCHANGED <<cache, NotCache>>
    /\ UNCHANGED now

inFlightAfterSettle_NoDelete(k) == inFlight

\* finally { inFlight.delete(inflightKey) }
inFlightAfterSettle(k) == Delete(inFlight, k)

cacheAfterSettle_OnlyComplete(k, value) ==
    IF value.metrics = EnabledPlatforms
    THEN Set(cache, k, [value |-> value, expiresAt |-> now + CacheTtl])
    ELSE cache

\* cache.set(key, { value, expiresAt: Date.now() + cacheTtlMs })
cacheAfterSettle(k, value) == Set(cache, k, [value |-> value, expiresAt |-> now + CacheTtl])

\* One platform block of the body finishes: its upstream calls returned (ok) or
\* one of them threw and the block's catch logged it.  After the last block the
\* body stores the value and returns, p settles, and the callers awaiting p resume.
PlatformReturn(f, ok) ==
    /\ Running(f)
    /\ LET pr == promises[f]
           metrics == IF ok THEN pr.metrics \cup {pr.pc} ELSE pr.metrics
           next == NextPlatform(pr.pc)
           value == [promise |-> f, metrics |-> metrics,
                     instLifetime |-> pr.params.isLifetime]
       IN  IF next # "settled"
           THEN /\ promises' = [promises EXCEPT ![f].pc = next, ![f].metrics = metrics]
                /\ UNCHANGED <<cache, inFlight, callers>>
           ELSE /\ cache' = cacheAfterSettle(pr.key, value)
                /\ inFlight' = inFlightAfterSettle(pr.key)
                /\ promises' = Delete(promises, f)
                /\ callers' = [c \in Callers |->
                        IF callers[c].state = "waiting" /\ callers[c].promise = f
                        THEN [callers[c] EXCEPT !.state = "done", !.promise = 0, !.result = value]
                        ELSE callers[c]]
    /\ UNCHANGED <<now, created, NotCache>>

\* The handler has sent its response.
Respond(c) ==
    /\ callers[c].state = "done"
    /\ callers' = [callers EXCEPT ![c] = IdleCaller]
    /\ UNCHANGED <<now, cache, inFlight, promises, created, NotCache>>

Tick(limit) ==
    /\ now < limit
    /\ now' = now + 1
    /\ UNCHANGED <<cacheVars, retry, statsVars, repliesVars, pageVars>>

CacheInit ==
    /\ cache = <<>>
    /\ inFlight = <<>>
    /\ promises = <<>>
    /\ created = 0
    /\ callers = [c \in Callers |-> IdleCaller]


(***************************************************************************)
(* withRetry                                                               *)
(***************************************************************************)
MaxTriesOpt == 4

\* An optional numeric option: absent (undefined) or a number.
Absent == [given |-> FALSE, n |-> 0]

Given(n) == [given |-> TRUE, n |-> n]

Max(a, b) == IF a >= b THEN a ELSE b

\* const tries = Math.max(1, Number(opts?.tries ?? 3))
tries(opt) == Max(1, IF opt.given THEN opt.n ELSE 3)

\* const baseDelayMs = Math.max(50, Number(opts?.baseDelayMs ?? 300))
baseDelayMs(opt) == Max(50, IF opt.given THEN opt.n ELSE 300)

\* e?.response?.status of the error fn throws; 0 stands for an error without one.
ErrorStatuses == {0, 400, 429, 500, 502, 503, 504}

retryable_Any5xx(status) == status \in {429, 500, 502, 503, 504}

\* status === 429 || status === 502 || status === 503 || status === 504
retryable(status) == status = 429 \/ status = 502 \/ status = 503 \/ status = 504

isLastAttempt_OffByOne(attempt, n) == attempt = n + 1

\* attempt === tries
isLastAttempt(attempt, n) == attempt = n

\* hist: the outcome of each invocation of fn so far (200 for a return, else
\* the status of the error thrown); waits: the sleeps taken; result: what
\* withRetry returned or threw, [status, attempt] naming the attempt it is from
\* (attempt 0: the generic Error('retry exhausted')).
NoRetry == [pc |-> "none", triesOpt |-> Absent, delayOpt |-> Absent, attempt |-> 0,
            hist |-> <<>>, waits |-> <<>>, result |-> [status |-> 0, attempt |-> 0]]

\* fn() resolves: return await fn()
FnReturns ==
    /\ retry.pc = "calling"
    /\ retry' = [retry EXCEPT !.pc = "returned", !.hist = Append(@, 200),
                              !.result = [status |-> 200, attempt |-> retry.attempt]]
    /\ UNCHANGED NotRetry

\* fn() rejects with an error of the given status
FnThrows(status) ==
    /\ retry.pc = "calling"
    /\ IF ~retryable(status) \/ isLastAttempt(retry.attempt, tries(retry.triesOpt))
       THEN \* throw e
            retry' = [retry EXCEPT !.pc = "thrown", !.hist = Append(@, status),
                                   !.result = [status |-> status, attempt |-> retry.attempt]]
       ELSE \* await sleep(baseDelayMs * attempt)
            retry' = [retry EXCEPT !.pc = "sleeping", !.hist = Append(@, status),
                                   !.waits = Append(@, baseDelayMs(retry.delayOpt) * retry.attempt)]
    /\ UNCHANGED NotRetry

\* the sleep ends: attempt++, then the loop test and the next fn()
SleepDone ==
    /\ retry.pc = "sleeping"
    /\ IF retry.attempt + 1 <= tries(retry.triesOpt)
       THEN retry' = [retry EXCEPT !.pc = "calling", !.attempt = @ + 1]
       ELSE \* throw new Error('retry exhausted')
            retry' = [retry EXCEPT !.pc = "thrown", !.attempt = @ + 1,
                                   !.result = [status |-> 0, attempt |-> 0]]
    /\ UNCHANGED NotRetry


(***************************************************************************)
(* refreshHeyReachPerCampaignStats and its trigger in /api/campaigns       *)
(***************************************************************************)
MaxStatsTime == 4
MaxRefreshes == 2
MaxCampaigns == 3

\* heyreachStatsTtlMs, heyreachStatsMinIntervalMs (in ticks), heyreachStatsConcurrency
heyreachStatsTtlMs == 1
heyreachStatsMinIntervalMs == 3
heyreachStatsConcurrency == 2

\* The ids of the selected campaigns in the list svc.getCampaigns() returns.
CampaignIds == 1..MaxCampaigns

\* The /api/campaigns window whose stats are warmed.
StatsParams == [clientId |-> "client1", status |-> "active", startDate |-> "d-6", endDate |-> "d0"]

heyreachCacheKey(p) == <<p.clientId, p.status, p.startDate, p.endDate>>

StatsKeys == { heyreachCacheKey(StatsParams) }

\* A property that is set to undefined; real stats are numbers >= 1.
Undefined == 0 - 1

Min(a, b) == IF a <= b THEN a ELSE b

\* existing?.updatedAt ?? 0 and existing?.statsByCampaignId ?? {}
existingOf(k) ==
    IF k \in DOMAIN heyreachStatsCache
    THEN [updatedAt |-> heyreachStatsCache[k].updatedAt,
          statsByCampaignId |-> heyreachStatsCache[k].statsByCampaignId]
    ELSE [updatedAt |-> 0, statsByCampaignId |-> <<>>]

\* !entry?.updatedAt || Date.now() - entry.updatedAt > heyreachStatsTtlMs
isStale(k) ==
    IF k \notin DOMAIN heyreachStatsCache THEN TRUE
    ELSE IF heyreachStatsCache[k].updatedAt = 0 THEN TRUE
    ELSE now - heyreachStatsCache[k].updatedAt > heyreachStatsTtlMs

alreadyRefreshing_Never(k) == FALSE

\* existing?.status === 'refreshing'
alreadyRefreshing(k) ==
    k \in DOMAIN heyreachStatsCache /\ heyreachStatsCache[k].status = "refreshing"

\* existing?.updatedAt && Date.now() - existing.updatedAt < heyreachStatsMinIntervalMs
debounced(k) ==
    /\ k \in DOMAIN heyreachStatsCache
    /\ heyreachStatsCache[k].updatedAt # 0
    /\ now - heyreachStatsCache[k].updatedAt < heyreachStatsMinIntervalMs

\* { ...a, ...b }: every own property of b, undefined ones included, overrides a
Spread(a, b) ==
    [id \in (DOMAIN a) \cup (DOMAIN b) |-> IF id \in DOMAIN b THEN b[id] ELSE a[id]]

\* refreshHeyReachPerCampaignStats is called for key k and runs up to its first
\* await, svc.getCampaigns(); a call that finds the entry 'refreshing', or
\* updated less than heyreachStatsMinIntervalMs ago, returns at once.
refreshHeyReachPerCampaignStats(k) ==
    IF alreadyRefreshing(k) \/ debounced(k)
    THEN UNCHANGED <<heyreachStatsCache, refreshes, refreshed, lastStart>>
    ELSE /\ refreshed < MaxRefreshes
         /\ refreshed' = refreshed + 1
         /\ heyreachStatsCache' = Set(heyreachStatsCache, k,
                 [updatedAt |-> existingOf(k).updatedAt,
                  statsByCampaignId |-> existingOf(k).statsByCampaignId,
                  status |-> "refreshing", error |-> FALSE])
         /\ refreshes' = Set(refreshes, refreshed + 1,
                 [key |-> k, existing |-> existingOf(k), pc |-> "getCampaigns",
                  idx |-> 0, out |-> <<>>, workers |-> <<>>])
         /\ lastStart' = Set(lastStart, k, now)

\* if (isStale) { if (cfg?.enabled) refreshHeyReachPerCampaignStats({...}) }
\* in the /api/campaigns handler; the refresh is not awaited.
WarmIfStale(k) ==
    IF isStale(k) /\ "heyreach" \in EnabledPlatforms
    THEN refreshHeyReachPerCampaignStats(k)
    ELSE UNCHANGED <<heyreachStatsCache, refreshes, refreshed, lastStart>>

\* The /api/campaigns handler, after its metrics arrived, for the stats window.
CampaignsRequest ==
    /\ WarmIfStale(heyreachCacheKey(StatsParams))
    /\ UNCHANGED <<now, bearerToken, NotStats>>

RefreshFailed_Clears(r) ==
    /\ heyreachStatsCache' = Set(heyreachStatsCache, refreshes[r].key,
            [updatedAt |-> now, statsByCampaignId |-> <<>>,
             status |-> "error", error |-> TRUE])
    /\ refreshes' = Delete(refreshes, r)

\* catch (e): the entry keeps the values of `existing` and becomes 'error'
RefreshFailed(r) ==
    /\ heyreachStatsCache' = Set(heyreachStatsCache, refreshes[r].key,
            [updatedAt |-> refreshes[r].existing.updatedAt,
             statsByCampaignId |-> refreshes[r].existing.statsByCampaignId,
             status |-> "error", error |-> TRUE])
    /\ refreshes' = Delete(refreshes, r)

RefreshDone_StaysRefreshing(r, statsByCampaignId) ==
    /\ heyreachStatsCache' = Set(heyreachStatsCache, refreshes[r].key,
            [updatedAt |-> now,
             statsByCampaignId |-> Spread(refreshes[r].existing.statsByCampaignId,
                                          statsByCampaignId),
             status |-> "refreshing", error |-> FALSE])
    /\ refreshes' = Delete(refreshes, r)

\* const merged = { ...(existing?.statsByCampaignId ?? {}), ...statsByCampaignId };
\* the entry becomes 'idle' with updatedAt: Date.now()
RefreshDone(r, statsByCampaignId) ==
    /\ heyreachStatsCache' = Set(heyreachStatsCache, refreshes[r].key,
            [updatedAt |-> now,
             statsByCampaignId |-> Spread(refreshes[r].existing.statsByCampaignId,
                                          statsByCampaignId),
             status |-> "idle", error |-> FALSE])
    /\ refreshes' = Delete(refreshes, r)

StartWorkers_SameFirstIndex(r) ==
    LET n == Min(heyreachStatsConcurrency, MaxCampaigns) IN
    refreshes' = [refreshes EXCEPT
        ![r].pc = "workers",
        ![r].idx = n,
        ![r].out = <<>>,
        ![r].workers = [w \in 1..n |-> [pc |-> "calling", i |-> 0]]]

StartWorkers_OnePerCampaign(r) ==
    refreshes' = [refreshes EXCEPT
        ![r].pc = "workers",
        ![r].idx = MaxCampaigns,
        ![r].out = <<>>,
        ![r].workers = [w \in 1..MaxCampaigns |-> [pc |-> "calling", i |-> w - 1]]]

\* The public fallback starts: Math.min(heyreachStatsConcurrency, ids.length)
\* workers each take the next index (i = idx++) and issue their first call.
StartWorkers(r) ==
    LET n == Min(heyreachStatsConcurrency, MaxCampaigns) IN
    refreshes' = [refreshes EXCEPT
        ![r].pc = "workers",
        ![r].idx = n,
        ![r].out = <<>>,
        ![r].workers = [w \in 1..n |-> [pc |-> "calling", i |-> w - 1]]]

\* svc.getCampaigns() settles: it throws (caught by the outer catch) or returns
\* the campaign list.  With a bearer token set, the single-call stats request
\* is awaited next; else the public fallback starts.
GetCampaignsReturn(r, ok) ==
    /\ r \in DOMAIN refreshes
    /\ refreshes[r].pc = "getCampaigns"
    /\ IF ~ok
       THEN RefreshFailed(r)
       ELSE IF bearerToken # ""
       THEN /\ refreshes' = [refreshes EXCEPT ![r].pc = "bearer"]
            /\ UNCHANGED heyreachStatsCache
       ELSE /\ StartWorkers(r)
            /\ UNCHANGED heyreachStatsCache
    /\ UNCHANGED <<now, refreshed, lastStart, bearerToken, NotStats>>

\* svc.getOverallStatsByCampaign settles: it throws (ignored) or returns stats
\* for the campaigns in `got`.  An empty result falls back to the public API.
BearerReturn(r, ok, got) ==
    /\ r \in DOMAIN refreshes
    /\ refreshes[r].pc = "bearer"
    /\ IF ok /\ got # {}
       THEN RefreshDone(r, [id \in got |-> r])
       ELSE /\ StartWorkers(r)
            /\ UNCHANGED heyreachStatsCache
    /\ UNCHANGED <<now, refreshed, lastStart, bearerToken, NotStats>>

outAfterCall_SkipMissing(out, id, ok, r) == IF ok THEN Set(out, id, r) ELSE out

\* out[String(id)] = per[String(id)], where the per-campaign call has
\* swallowed its own failure and returned {} (per[String(id)] is undefined)
outAfterCall(out, id, ok, r) == Set(out, id, IF ok THEN r ELSE Undefined)

\* A worker's svc.getOverallStatsByCampaignPublic({campaignIds: [id]}) resolves,
\* with the stats of the campaign (ok) or with {} after a failed request; the
\* worker stores the result and sleeps heyreachStatsDelayMs.
PublicReturn(r, w, ok) ==
    /\ r \in DOMAIN refreshes
    /\ refreshes[r].pc = "workers"
    /\ w \in DOMAIN refreshes[r].workers
    /\ refreshes[r].workers[w].pc = "calling"
    /\ refreshes' = [refreshes EXCEPT
            ![r].out = outAfterCall(@, refreshes[r].workers[w].i + 1, ok, r),
            ![r].workers[w].pc = "sleeping"]
    /\ UNCHANGED <<now, heyreachStatsCache, refreshed, lastStart, bearerToken, NotStats>>

\* A worker's sleep ends: while (idx < ids.length) it takes the next index and
\* calls again; else it returns, and when it is the last one Promise.all
\* resolves and the refresh merges `out` into the cache.
WorkerWake(r, w) ==
    /\ r \in DOMAIN refreshes
    /\ refreshes[r].pc = "workers"
    /\ w \in DOMAIN refreshes[r].workers
    /\ refreshes[r].workers[w].pc = "sleeping"
    /\ IF refreshes[r].idx < MaxCampaigns
       THEN /\ refreshes' = [refreshes EXCEPT
                    ![r].idx = @ + 1,
                    ![r].workers[w] = [pc |-> "calling", i |-> refreshes[r].idx]]
            /\ UNCHANGED heyreachStatsCache
       ELSE IF \A v \in (DOMAIN refreshes[r].workers) \ {w} :
                    refreshes[r].workers[v].pc = "returned"
       THEN RefreshDone(r, refreshes[r].out)
       ELSE /\ refreshes' = [refreshes EXCEPT ![r].workers[w].pc = "returned"]
            /\ UNCHANGED heyreachStatsCache
    /\ UNCHANGED <<now, refreshed, lastStart, bearerToken, NotStats>>

\* The parameters of the three parallel requests of one dashboard refresh
\* (/api/summary, /api/campaigns, /api/timeseries), without the stats opt-in.
DashboardParams ==
    [clientId |-> StatsParams.clientId, startDate |-> StatsParams.startDate,
     endDate |-> StatsParams.endDate, days |-> 7, isLifetime |-> FALSE,
     status |-> StatsParams.status, includeHeyReachStats |-> FALSE]

\* The /api/campaigns handler resumes with the data of fetchClientMetrics:
\* it triggers the stats refresh if the entry is stale and sends its response.
CampaignsRespond(c) ==
    /\ callers[c].state = "done"
    /\ callers[c].result # NullResult
    /\ callers' = [callers EXCEPT ![c] = IdleCaller]
    /\ WarmIfStale(heyreachCacheKey(DashboardParams))
    /\ UNCHANGED <<now, cache, inFlight, promises, created, retry, bearerToken,
                   repliesVars, pageVars>>

StatsIdle ==
    /\ heyreachStatsCache = <<>>
    /\ refreshes = <<>>
    /\ refreshed = 0
    /\ lastStart = <<>>
    /\ bearerToken = ""

(***************************************************************************)
(* EmailBisonService.getFilteredRepliesStreamPage                          *)
(***************************************************************************)
MaxRepliesTime == 2
MaxStreamCalls == 2
MaxEntries == 2
MaxPageArg == 3

StreamCallers == 1..MaxStreamCalls

\* getRepliesCacheTtlMs() in ticks, getRepliesMaxRawPages()
getRepliesCacheTtlMs == 1
getRepliesMaxRawPages == 3

\* A raw reply: ms is parseReplyDateMs(r) (0 when the reply carries no valid
\* date), noise tells whether the include predicate rejects it.
Reply(id, ms) == [id |-> id, ms |-> ms, noise |-> FALSE]

Noise(id, ms) == [id |-> id, ms |-> ms, noise |-> TRUE]

\* Upstream feeds.  In the first the second raw page crosses the window start;
\* the second holds a noise reply and an undated one and stays inside the
\* window for more raw pages than the scan cap.
Feeds ==
    { << <<Reply(1, 10), Reply(2, 9), Reply(3, 8)>>,
         <<Reply(4, 7), Reply(5, 6), Reply(6, 2)>>,
         <<Reply(7, 1)>> >>,
      << <<Reply(1, 10), Noise(2, 9)>>,
         <<Reply(3, 0), Reply(4, 8)>>,
         <<Reply(5, 7)>>,
         <<Reply(6, 6)>> >> }

\* The window of the request: startDate and endDate as epoch values.
StreamParams == [kind |-> "replied", startDate |-> 5, endDate |-> 10,
                 includeAutomated |-> FALSE, campaignId |-> "null"]

getRepliesCacheKey(p) ==
    <<p.kind, p.startDate, p.endDate, p.includeAutomated, p.campaignId>>

startMs == StreamParams.startDate

endMs == StreamParams.endDate

\* config.platforms.emailbison.apiKey of a client
ApiKeyOf(clientId) == <<"key", clientId>>

\* GET /api/replies?page=n: res.data.data, [] beyond the last page
RawPage(n) == IF n \in 1..Len(feed) THEN feed[n] ELSE <<>>

\* the date window and the include predicate applied to one raw row
Matches(r) ==
    /\ ~(r.ms # 0 /\ r.ms > endMs)
    /\ ~(r.ms # 0 /\ r.ms < startMs)
    /\ ~r.noise

CrossesStart_Never(rows) == FALSE

\* lastMs && lastMs < startMs, for the last row of a non-empty raw page
CrossesStart(rows) == rows[Len(rows)].ms # 0 /\ rows[Len(rows)].ms < startMs

ScanMore_IgnoreExhausted(e, needed) ==
    /\ Len(e.rows) < needed
    /\ e.scannedPages < getRepliesMaxRawPages

\* entry.rows.length < needed && !entry.exhausted && entry.scannedPages < maxRawPages
ScanMore(e, needed) ==
    /\ Len(e.rows) < needed
    /\ ~e.exhausted
    /\ e.scannedPages < getRepliesMaxRawPages

Slice_IgnoreOffset(rows, offset, perPage) ==
    SubSeq(rows, 1, Min(perPage, Len(rows)))

\* entry.rows.slice(offset, offset + perPage)
Slice(rows, offset, perPage) ==
    SubSeq(rows, offset + 1, Min(offset + perPage, Len(rows)))

hasMore_BufferOnly(e, offset, perPage) == offset + perPage < Len(e.rows)

hasMore(e, offset, perPage) ==
    IF offset + perPage < Len(e.rows) THEN TRUE
    ELSE ~e.exhausted /\ e.scannedPages < getRepliesMaxRawPages

\* An activation: apiKey is the key of the EmailBisonService instance it runs on.
IdleCall == [pc |-> "idle", apiKey |-> "", entry |-> 0, page |-> 0, perPage |-> 0,
             raw |-> 0, rows |-> <<>>, hasMore |-> FALSE]

\* The loop test for call c on entry object id with contents e: either the next
\* raw page, entry.nextRawPage, is requested and the call suspends, or the call
\* returns its slice.
LoopOrReturn(c, apiKey, id, e, page, perPage) ==
    LET offset == (page - 1) * perPage
        needed == offset + perPage
    IN  IF ScanMore(e, needed)
        THEN /\ calls' = [calls EXCEPT ![c] =
                    [IdleCall EXCEPT !.pc = "awaiting", !.apiKey = apiKey,
                                     !.entry = id, !.page = page,
                                     !.perPage = perPage, !.raw = e.nextRawPage]]
        ELSE /\ calls' = [calls EXCEPT ![c] =
                    [IdleCall EXCEPT !.pc = "done", !.apiKey = apiKey,
                                     !.entry = id, !.page = page,
                                     !.perPage = perPage,
                                     !.rows = Slice(e.rows, offset, perPage),
                                     !.hasMore = hasMore(e, offset, perPage)]]

\* getFilteredRepliesStreamPage is called, up to its first await or its return.
GetPage(c, apiKey, page, perPage) ==
    /\ calls[c].pc = "idle"
    /\ LET key == getRepliesCacheKey(StreamParams)
           live == IF key \in DOMAIN repliesCache
                   THEN entries[repliesCache[key]].expiresAt > now
                   ELSE FALSE
       IN  IF live
           THEN /\ LoopOrReturn(c, apiKey, repliesCache[key],
                                entries[repliesCache[key]], page, perPage)
                /\ UNCHANGED <<repliesCache, entries>>
           ELSE \* !entry || entry.expiresAt <= now: a new entry object replaces it
                LET id == Len(entries) + 1
                    e == [expiresAt |-> now + getRepliesCacheTtlMs, rows |-> <<>>,
                          exhausted |-> FALSE, nextRawPage |-> 1, scannedPages |-> 0,
                          keys |-> {}]
                IN  /\ Len(entries) < MaxEntries
                    /\ entries' = Append(entries, e)
                    /\ repliesCache' = Set(repliesCache, key, id)
                    /\ LoopOrReturn(c, apiKey, id, e, page, perPage)
    /\ UNCHANGED <<now, rawRequests, feed, NotReplies>>

rowsAfterPage_Replace(rows, raw) == SelectSeq(raw, Matches)

\* for (const r of rows) { ...; entry.rows.push(r) }
rowsAfterPage(rows, raw) == rows \o SelectSeq(raw, Matches)

\* The awaited GET resolves with the raw page that was requested.  The entry's
\* cursor and counter are advanced, the matching rows appended, and the loop
\* goes on or the call returns.
RawReturn(c) ==
    /\ calls[c].pc = "awaiting"
    /\ LET id == calls[c].entry
           e == entries[id]
           raw == RawPage(calls[c].raw)
           e1 == [e EXCEPT !.nextRawPage = @ + 1, !.scannedPages = @ + 1,
                           !.keys = @ \cup {calls[c].apiKey}]
           e2 == IF raw = <<>>
                 THEN [e1 EXCEPT !.exhausted = TRUE]
                 ELSE [e1 EXCEPT !.rows = rowsAfterPage(@, raw),
                                 !.exhausted = @ \/ CrossesStart(raw)]
       IN  /\ entries' = [entries EXCEPT ![id] = e2]
           /\ rawRequests' = rawRequests (+) SetToBag({<<id, calls[c].raw>>})
           /\ LoopOrReturn(c, calls[c].apiKey, id, e2, calls[c].page, calls[c].perPage)
    /\ UNCHANGED <<now, repliesCache, feed, NotReplies>>

RawFail_AdvancesCursor(c) ==
    /\ calls[c].pc = "awaiting"
    /\ calls' = [calls EXCEPT ![c] = [IdleCall EXCEPT !.pc = "failed"]]
    /\ entries' = [entries EXCEPT ![calls[c].entry].nextRawPage = @ + 1,
                                  ![calls[c].entry].scannedPages = @ + 1]
    /\ UNCHANGED <<now, repliesCache, rawRequests, feed, NotReplies>>

\* The awaited GET rejects: the call throws, the entry is as it was.
RawFail(c) ==
    /\ calls[c].pc = "awaiting"
    /\ calls' = [calls EXCEPT ![c] = [IdleCall EXCEPT !.pc = "failed"]]
    /\ UNCHANGED <<now, repliesCache, entries, rawRequests, feed, NotReplies>>

\* The caller has consumed the outcome.
StreamRespond(c) ==
    /\ calls[c].pc \in {"done", "failed"}
    /\ calls' = [calls EXCEPT ![c] = IdleCall]
    /\ UNCHANGED <<now, repliesCache, entries, rawRequests, feed, NotReplies>>

RepliesIdle ==
    /\ repliesCache = <<>>
    /\ entries = <<>>
    /\ calls = [c \in StreamCallers |-> IdleCall]
    /\ rawRequests = EmptyBag
    /\ feed = <<>>

(***************************************************************************)
(* The dashboard page: refresh() of dashboard/public/app.js.  Each run     *)
(* takes the next sequence number, disables the button, awaits its four    *)
(* API requests together, and draws only if no later run has started.      *)
(***************************************************************************)
MaxRuns == 4

\* The value of the client selector: "" when no client is configured.
ClientSelectValues == {"", "client1"}

\* What the awaited Promise.all brings back: four usable bodies, a rejected
\* request, or bodies the drawing code throws on.
Outcomes == {"ok", "rejected", "malformed"}

Status(kind, seq) == [kind |-> kind, seq |-> seq]

\* `seq !== refreshSeq`
superseded_Never(seq) == FALSE

superseded(seq) == seq # refreshSeq

\* refresh() up to its await.
refresh(clientId) ==
    /\ IF clientId = ""
       THEN UNCHANGED pageVars
       ELSE /\ Len(runs) < MaxRuns
            /\ refreshSeq' = refreshSeq + 1
            /\ runs' = Append(runs, [seq |-> refreshSeq + 1, pc |-> "awaiting", got |-> "none",
                                 returnedEarly |-> FALSE])
            /\ ui' = [ui EXCEPT !.disabled = TRUE,
                                !.status = Status("loading", refreshSeq + 1)]
    /\ UNCHANGED NotPage

\* The page after the try, catch and finally blocks of one run.
uiAfterSettle(seq, got) ==
    IF superseded(seq)
    THEN ui
    ELSE [shown |-> IF got = "rejected" THEN ui.shown ELSE seq,
          status |-> IF got = "ok" THEN Status("updated", seq) ELSE Status("error", seq),
          disabled |-> FALSE]

\* The awaited Promise.all settles and the run goes on to its end.
refreshSettles(r, got) ==
    /\ r \in 1..Len(runs)
    /\ runs[r].pc = "awaiting"
    /\ runs' = [runs EXCEPT ![r].pc = "done", ![r].got = got,
                             ![r].returnedEarly = superseded(runs[r].seq)]
    /\ ui' = uiAfterSettle(runs[r].seq, got)
    /\ UNCHANGED <<refreshSeq, NotPage>>

PageIdle ==
    /\ refreshSeq = 0
    /\ runs = <<>>
    /\ ui = [shown |-> 0, status |-> Status("none", 0), disabled |-> FALSE]

(***************************************************************************)
(* Specifications, one per component; the other components stay idle.      *)
(***************************************************************************)
\* fetchClientMetrics under concurrent requests
Init ==
    /\ now = 1
    /\ CacheInit
    /\ retry = NoRetry
    /\ StatsIdle
    /\ RepliesIdle
    /\ PageIdle

Next ==
    \/ \E c \in Callers, p \in RequestParams : Call(c, p)
    \/ \E f \in 1..MaxPromises, ok \in BOOLEAN : PlatformReturn(f, ok)
    \/ \E c \in Callers : Respond(c)
    \/ Tick(MaxTime)

Spec == Init /\ [][Next]_vars

\* withRetry is entered with some options; the first fn() is invoked at once.
RetryInit ==
    /\ now = 1
    /\ CacheInit
    /\ StatsIdle
    /\ RepliesIdle
    /\ PageIdle
    /\ \E t \in {Absent} \cup { Given(n) : n \in 0..MaxTriesOpt },
          d \in {Absent, Given(10), Given(500)} :
            retry = [NoRetry EXCEPT !.pc = "calling", !.triesOpt = t, !.delayOpt = d,
                                    !.attempt = 1]

RetryNext ==
    \/ FnReturns
    \/ \E status \in ErrorStatuses : FnThrows(status)
    \/ SleepDone

SpecRetry == RetryInit /\ [][RetryNext]_vars

\* the stats warmer under repeated /api/campaigns requests
StatsInit ==
    /\ now = 1
    /\ CacheInit
    /\ retry = NoRetry
    /\ heyreachStatsCache = <<>>
    /\ refreshes = <<>>
    /\ refreshed = 0
    /\ lastStart = <<>>
    /\ bearerToken \in {"", "token"}
    /\ RepliesIdle
    /\ PageIdle

StatsNext ==
    \/ CampaignsRequest
    \/ \E r \in 1..MaxRefreshes, ok \in BOOLEAN : GetCampaignsReturn(r, ok)
    \/ \E r \in 1..MaxRefreshes, ok \in BOOLEAN, got \in SUBSET CampaignIds : BearerReturn(r, ok, got)
    \/ \E r \in 1..MaxRefreshes, w \in 1..heyreachStatsConcurrency, ok \in BOOLEAN : PublicReturn(r, w, ok)
    \/ \E r \in 1..MaxRefreshes, w \in 1..heyreachStatsConcurrency : WorkerWake(r, w)
    \/ Tick(MaxStatsTime)

SpecStats == StatsInit /\ [][StatsNext]_vars

\* The same, where every upstream call that was issued eventually returns or
\* fails and every sleep ends.
StatsFairness ==
    /\ WF_vars(\E r \in 1..MaxRefreshes, ok \in BOOLEAN : GetCampaignsReturn(r, ok))
    /\ WF_vars(\E r \in 1..MaxRefreshes, ok \in BOOLEAN, got \in SUBSET CampaignIds :
                    BearerReturn(r, ok, got))
    /\ WF_vars(\E r \in 1..MaxRefreshes, w \in 1..heyreachStatsConcurrency, ok \in BOOLEAN :
                    PublicReturn(r, w, ok))
    /\ WF_vars(\E r \in 1..MaxRefreshes, w \in 1..heyreachStatsConcurrency : WorkerWake(r, w))

SpecStatsLive == StatsInit /\ [][StatsNext]_vars /\ StatsFairness

\* one client's dashboard: the route handlers, fetchClientMetrics and the warmer
DashboardInit ==
    /\ now = 1
    /\ CacheInit
    /\ retry = NoRetry
    /\ heyreachStatsCache = <<>>
    /\ refreshes = <<>>
    /\ refreshed = 0
    /\ lastStart = <<>>
    /\ bearerToken \in {"", "token"}
    /\ RepliesIdle
    /\ PageIdle

DashboardNext ==
    \/ \E c \in Callers : Call(c, DashboardParams)
    \/ \E f \in 1..MaxPromises, ok \in BOOLEAN : PlatformReturn(f, ok)
    \/ \E c \in Callers : Respond(c)
    \/ \E c \in Callers : CampaignsRespond(c)
    \/ \E r \in 1..MaxRefreshes, ok \in BOOLEAN : GetCampaignsReturn(r, ok)
    \/ \E r \in 1..MaxRefreshes, ok \in BOOLEAN, got \in SUBSET CampaignIds :
            BearerReturn(r, ok, got)
    \/ \E r \in 1..MaxRefreshes, w \in 1..heyreachStatsConcurrency, ok \in BOOLEAN :
            PublicReturn(r, w, ok)
    \/ \E r \in 1..MaxRefreshes, w \in 1..heyreachStatsConcurrency : WorkerWake(r, w)
    \/ Tick(MaxTime)

SpecDashboard == DashboardInit /\ [][DashboardNext]_vars

\* the replies stream cache under concurrent page requests
RepliesInit ==
    /\ now = 1
    /\ CacheInit
    /\ retry = NoRetry
    /\ StatsIdle
    /\ repliesCache = <<>>
    /\ entries = <<>>
    /\ calls = [c \in StreamCallers |-> IdleCall]
    /\ rawRequests = EmptyBag
    /\ feed \in Feeds
    /\ PageIdle

RepliesNext ==
    \/ \E c \in StreamCallers, page \in 1..MaxPageArg :
            GetPage(c, ApiKeyOf("client1"), page, 2)
    \/ \E c \in StreamCallers : RawReturn(c)
    \/ \E c \in StreamCallers : RawFail(c)
    \/ \E c \in StreamCallers : StreamRespond(c)
    \/ Tick(MaxRepliesTime)

SpecReplies == RepliesInit /\ [][RepliesNext]_vars

\* Two configured clients with EmailBison enabled, each with its own API key;
\* /api/replies builds a new EmailBisonService with the key of the client asked for.
Tenants == {"client1", "client2"}

TenantsNext ==
    \/ \E c \in StreamCallers, t \in Tenants, page \in 1..MaxPageArg :
            GetPage(c, ApiKeyOf(t), page, 2)
    \/ \E c \in StreamCallers : RawReturn(c)
    \/ \E c \in StreamCallers : RawFail(c)
    \/ \E c \in StreamCallers : StreamRespond(c)
    \/ Tick(MaxRepliesTime)

SpecTenants == RepliesInit /\ [][TenantsNext]_vars

\* the dashboard page under repeated clicks and selector changes
PageInit ==
    /\ now = 1
    /\ CacheInit
    /\ retry = NoRetry
    /\ StatsIdle
    /\ RepliesIdle
    /\ PageIdle

PageNext ==
    \/ \E clientId \in ClientSelectValues : refresh(clientId)
    \/ \E r \in 1..MaxRuns, got \in Outcomes : refreshSettles(r, got)

SpecPage == PageInit /\ [][PageNext]_vars

(***************************************************************************)
(* Claims about fetchClientMetrics, checked under Spec.                    *)
(***************************************************************************)
Settles(f) == f \in DOMAIN promises /\ f \notin DOMAIN promises'

PendingFor(k) == { f \in DOMAIN promises : promises[f].key = k }

\* C1: calls for one key that overlap an unsettled fetch share that fetch: no
\* key ever has two fetches pending, a call made while a fetch for its key is
\* pending starts no fetch body and is attached to that fetch, and when the
\* fetch settles every caller attached to it receives the one value it built.
C1_Coalescing ==
    /\ [](\A k \in Keys : Cardinality(PendingFor(k)) <= 1)
    /\ [][\A c \in Callers, p \in RequestParams :
            (Call(c, p) /\ PendingFor(getCacheKey(p)) # {})
            => /\ created' = created
               /\ promises' = promises
               /\ callers'[c].state = "waiting"
               /\ callers'[c].promise \in PendingFor(getCacheKey(p))]_vars
    /\ [][\A f \in DOMAIN promises : Settles(f) =>
            \A c1, c2 \in Callers :
                (callers[c1].state = "waiting" /\ callers[c1].promise = f /\
                 callers[c2].state = "waiting" /\ callers[c2].promise = f)
                => /\ callers'[c1].state = "done"
                   /\ callers'[c1].result = callers'[c2].result
                   /\ callers'[c1].result.promise = f]_vars

C1_Witness ==
    \E c1, c2 \in Callers :
        /\ c1 # c2
        /\ callers[c1].state = "waiting" /\ callers[c2].state = "waiting"
        /\ callers[c1].promise = callers[c2].promise

\* C2 as claimed: a fetch in which an upstream platform call failed writes no
\* CacheEntry, so every cached value holds the metrics of all enabled platforms.
C2_FailuresNotCached ==
    \A k \in DOMAIN cache : cache[k].value.metrics = EnabledPlatforms

\* C2 as amended: an upstream failure is caught inside the fetch body, so every
\* fetch that settles, with or without failed platforms, writes its value to
\* the cache with the full TTL and hands that value (no error) to every caller
\* waiting on it.
C2_DegradedValueCached ==
    [][\A f \in DOMAIN promises : Settles(f) =>
            LET k == promises[f].key IN
            /\ k \in DOMAIN cache'
            /\ cache'[k].value.promise = f
            /\ cache'[k].value.metrics \subseteq EnabledPlatforms
            /\ cache'[k].expiresAt = now + CacheTtl
            /\ \A c \in Callers :
                (callers[c].state = "waiting" /\ callers[c].promise = f)
                => (callers'[c].state = "done" /\ callers'[c].result = cache'[k].value)]_vars

C2_Witness ==
    \E k \in DOMAIN cache, c \in Callers :
        /\ cache[k].value.metrics # EnabledPlatforms
        /\ cache[k].expiresAt > now
        /\ callers[c].state = "done"
        /\ callers[c].result = cache[k].value

\* C6: a call is answered from the stored CacheEntry only while
\* expiresAt > now, and then with exactly the stored value; a call for a
\* configured client that finds the entry expired is attached to a fetch, a new
\* one unless one is already pending for the key.
C6_TtlExpiry ==
    [][\A c \in Callers, p \in RequestParams : Call(c, p) =>
            LET k == getCacheKey(p) IN
            /\ (callers'[c].state = "done" /\ callers'[c].result # NullResult)
               => (k \in DOMAIN cache /\ cache[k].expiresAt > now
                   /\ callers'[c].result = cache[k].value)
            /\ (k \in DOMAIN cache /\ cache[k].expiresAt <= now)
               => /\ callers'[c].state = "waiting"
                  /\ callers'[c].promise \in DOMAIN promises'
                  /\ promises'[callers'[c].promise].key = k
                  /\ (PendingFor(k) = {} => created' = created + 1)]_vars

C6_Witness ==
    \E k \in DOMAIN cache :
        /\ cache[k].expiresAt <= now
        /\ \E f \in PendingFor(k) : f > cache[k].value.promise

\* C7: the registry holds an entry for a key exactly while a fetch for that key
\* is pending; the entry is removed in the step in which its fetch settles and
\* in no other step, whatever the upstream outcome and however many callers
\* joined; a waiting caller is always attached to a pending fetch.
C7_InFlightRemoved ==
    /\ [](\A k \in DOMAIN inFlight :
            inFlight[k] \in DOMAIN promises /\ promises[inFlight[k]].key = k)
    /\ [](\A f \in DOMAIN promises :
            promises[f].key \in DOMAIN inFlight /\ inFlight[promises[f].key] = f)
    /\ [](\A c \in Callers :
            callers[c].state = "waiting" => callers[c].promise \in DOMAIN promises)
    /\ [][\A k \in DOMAIN inFlight :
            (k \notin DOMAIN inFlight') <=> Settles(inFlight[k])]_vars

C7_Witness ==
    \E k \in DOMAIN cache, c1, c2 \in Callers :
        /\ c1 # c2
        /\ k \notin DOMAIN inFlight
        /\ cache[k].value.metrics # EnabledPlatforms
        /\ callers[c1].state = "done" /\ callers[c1].result = cache[k].value
        /\ callers[c2].state = "done" /\ callers[c2].result = cache[k].value

\* C27: two fetches with the same cache key issue the same upstream requests:
\* a fetch that is running for a key uses the Instantly window (shifted, or
\* the lifetime window as given) with which the Instantly metrics stored
\* under that key were fetched.
C27_KeyDeterminesFetch ==
    \A f \in DOMAIN promises :
        (/\ promises[f].key \in DOMAIN cache
         /\ "instantly" \in cache[promises[f].key].value.metrics)
        => cache[promises[f].key].value.instLifetime = promises[f].params.isLifetime

(***************************************************************************)
(* Claims about withRetry, checked under SpecRetry.                        *)
(***************************************************************************)
OverloadStatuses == {429, 502, 503, 504}

\* C8: only a failure with status 429, 502, 503 or 504 is followed by another
\* attempt; any other failure (an error without a status included) is the last
\* invocation of fn, is what withRetry throws, and no sleep follows it, so a
\* first failure of that kind leaves fn invoked exactly once.
C8_RetryOnlyOverload ==
    /\ \A i \in 1..Len(retry.hist) :
        i < Len(retry.hist) => retry.hist[i] \in OverloadStatuses
    /\ \A i \in 1..Len(retry.hist) :
        (retry.hist[i] # 200 /\ retry.hist[i] \notin OverloadStatuses)
        => /\ i = Len(retry.hist)
           /\ retry.pc = "thrown"
           /\ retry.result = [status |-> retry.hist[i], attempt |-> i]
           /\ Len(retry.waits) = i - 1

C8_Witness ==
    /\ retry.pc = "thrown"
    /\ tries(retry.triesOpt) >= 2
    /\ Len(retry.hist) = 1
    /\ retry.hist[1] = 0
    /\ retry.waits = <<>>

\* C9: fn is invoked at most tries times (tries is the option clamped to at
\* least 1, default 3); the first success ends the loop and its value is
\* returned; when all tries attempts fail with retryable statuses withRetry
\* throws the error of the last attempt.
C9_BoundedAttempts ==
    LET n == IF retry.triesOpt.given THEN Max(1, retry.triesOpt.n) ELSE 3
        h == retry.hist
    IN  /\ Len(h) <= n
        /\ retry.attempt <= n
        /\ \A i \in 1..Len(h) :
            h[i] = 200 => /\ i = Len(h)
                          /\ retry.pc = "returned"
                          /\ retry.result = [status |-> 200, attempt |-> i]
        /\ (Len(h) = n /\ \A i \in 1..n : h[i] \in OverloadStatuses)
            => /\ retry.pc = "thrown"
               /\ retry.result = [status |-> h[n], attempt |-> n]
        /\ retry.pc = "thrown" => retry.result.attempt = Len(h)

C9_Witness ==
    /\ retry.pc = "thrown"
    /\ Len(retry.hist) = 3
    /\ tries(retry.triesOpt) = 3
    /\ retry.hist[1] # retry.hist[3]
    /\ retry.result = [status |-> retry.hist[3], attempt |-> 3]

(***************************************************************************)
(* Claims about the stats warmer, checked under SpecStats.                 *)
(***************************************************************************)
Finishes(r) == r \in DOMAIN refreshes /\ r \notin DOMAIN refreshes'

\* C3: a campaign id that has stats before a refresh still has stats after it:
\* when the refresh ends 'idle', the id holds either the value this refresh
\* fetched for it or, if the fetch for it failed or yielded nothing, its
\* previous value; it is never missing or undefined.
C3_FailedIdKeepsValue ==
    [][\A r \in DOMAIN refreshes :
        (Finishes(r) /\ heyreachStatsCache'[refreshes[r].key].status = "idle") =>
            LET old == refreshes[r].existing.statsByCampaignId
                new == heyreachStatsCache'[refreshes[r].key].statsByCampaignId
            IN  \A id \in DOMAIN old :
                    old[id] >= 1 =>
                        /\ id \in DOMAIN new
                        /\ new[id] \in {old[id], r}
                        /\ (refreshes[r].pc = "workers" /\ id \in DOMAIN refreshes[r].out
                            /\ refreshes[r].out[id] = Undefined) => new[id] = old[id]]_vars

\* C4: refreshes of one stats key are started at least
\* heyreachStatsMinIntervalMs apart, whatever the outcome of the earlier one.
C4_Debounce ==
    [][refreshed' = refreshed + 1 =>
        LET k == refreshes'[refreshed'].key IN
        k \in DOMAIN lastStart => now - lastStart[k] >= heyreachStatsMinIntervalMs]_vars

\* the refreshes in progress for stats key k
InProgress(k) == {r \in DOMAIN refreshes : refreshes[r].key = k}

\* C18: for each stats key at most one refresh is in progress; while the entry
\* is 'refreshing' no step starts a refresh, and the entry changes only when
\* the refresh in progress finishes.
C18_OneRefreshAtATime ==
    /\ [](\A k \in StatsKeys : Cardinality(InProgress(k)) <= 1)
    /\ [][\A k \in StatsKeys :
            alreadyRefreshing(k) =>
                /\ refreshed' = refreshed
                /\ (heyreachStatsCache'[k] # heyreachStatsCache[k]
                    => \E r \in InProgress(k) : Finishes(r))]_vars

\* A refresh is under way with its workers calling, and the entry is stale, so
\* an /api/campaigns request arriving now calls the refresh function again.
C18_Witness ==
    \E k \in StatsKeys :
        /\ alreadyRefreshing(k)
        /\ isStale(k)
        /\ \E r \in InProgress(k) : refreshes[r].pc = "workers"

\* C19: a refresh that ends in 'error' leaves statsByCampaignId and updatedAt
\* of the entry as they were before the refresh started (starting it does not
\* change them either); only status and error change.
C19_ErrorKeepsEntry ==
    [][/\ \A r \in DOMAIN refreshes :
            (Finishes(r) /\ heyreachStatsCache'[refreshes[r].key].status = "error") =>
                LET before == heyreachStatsCache[refreshes[r].key]
                    after == heyreachStatsCache'[refreshes[r].key]
                IN  /\ after.statsByCampaignId = before.statsByCampaignId
                    /\ after.updatedAt = before.updatedAt
                    /\ after.error
       /\ \A k \in StatsKeys :
            (refreshed' = refreshed + 1 /\ k \in DOMAIN heyreachStatsCache) =>
                /\ heyreachStatsCache'[k].statsByCampaignId =
                        heyreachStatsCache[k].statsByCampaignId
                /\ heyreachStatsCache'[k].updatedAt = heyreachStatsCache[k].updatedAt]_vars

\* A refresh failed on an entry that held stats from an earlier refresh.
C19_Witness ==
    \E k \in DOMAIN heyreachStatsCache :
        /\ heyreachStatsCache[k].status = "error"
        /\ heyreachStatsCache[k].updatedAt # 0
        /\ \E id \in DOMAIN heyreachStatsCache[k].statsByCampaignId :
                heyreachStatsCache[k].statsByCampaignId[id] >= 1

\* C20: an entry that is 'refreshing' has a refresh function still running,
\* and, every upstream call returning or failing in the end, it eventually
\* becomes 'idle' or 'error'.
C20_RefreshingEnds ==
    /\ [](\A k \in StatsKeys : alreadyRefreshing(k) => InProgress(k) # {})
    /\ \A k \in StatsKeys :
            alreadyRefreshing(k) ~>
                (k \in DOMAIN heyreachStatsCache
                 /\ heyreachStatsCache[k].status \in {"idle", "error"})

\* The attempt ran to completion with per-campaign calls that failed, and the
\* entry is 'idle'.
C20_Witness ==
    \E k \in DOMAIN heyreachStatsCache :
        /\ heyreachStatsCache[k].status = "idle"
        /\ InProgress(k) = {}
        /\ \E id \in DOMAIN heyreachStatsCache[k].statsByCampaignId :
                heyreachStatsCache[k].statsByCampaignId[id] = Undefined

\* the workers of refresh r whose per-campaign call is in flight
Calling(r) == {w \in DOMAIN refreshes[r].workers : refreshes[r].workers[w].pc = "calling"}

\* C21: at no instant does a refresh have more than heyreachStatsConcurrency
\* per-campaign public calls in flight, and a worker whose call returned sleeps
\* before it calls again.
C21_BoundedConcurrency ==
    /\ [](\A r \in DOMAIN refreshes : Cardinality(Calling(r)) <= heyreachStatsConcurrency)
    /\ [][\A r \in DOMAIN refreshes : \A w \in DOMAIN refreshes[r].workers :
            (r \in DOMAIN refreshes' /\ refreshes'[r].workers[w] # refreshes[r].workers[w]) =>
                /\ refreshes[r].workers[w].pc = "calling"
                        => refreshes'[r].workers[w].pc = "sleeping"
                /\ refreshes'[r].workers[w].pc = "calling"
                        => refreshes[r].workers[w].pc = "sleeping"]_vars

\* All workers of a refresh are calling, one of them for its second campaign.
C21_Witness ==
    \E r \in DOMAIN refreshes :
        /\ refreshes[r].pc = "workers"
        /\ Cardinality(Calling(r)) = heyreachStatsConcurrency
        /\ refreshes[r].idx > heyreachStatsConcurrency

\* the campaign ids whose call was made or is being made by a worker of r
Taken(r) ==
    DOMAIN refreshes[r].out
        \cup {refreshes[r].workers[w].i + 1 : w \in DOMAIN refreshes[r].workers}

\* C22: in the public fallback the ids are taken in order, each by one worker
\* and once: no id is called by two workers or called again after its call
\* returned, and when the workers are done every id has been called, whether
\* or not earlier calls failed.
C22_EachIdOnce ==
    /\ [](\A r \in DOMAIN refreshes : refreshes[r].pc = "workers" =>
            /\ Taken(r) = 1..refreshes[r].idx
            /\ \A w, v \in DOMAIN refreshes[r].workers :
                    w # v => refreshes[r].workers[w].i # refreshes[r].workers[v].i
            /\ \A w \in Calling(r) :
                    refreshes[r].workers[w].i + 1 \notin DOMAIN refreshes[r].out)
    /\ [][\A r \in DOMAIN refreshes :
            (Finishes(r) /\ refreshes[r].pc = "workers")
                => DOMAIN refreshes[r].out = CampaignIds]_vars

\* The call for the first id failed and the calls for all the others were made.
C22_Witness ==
    \E r \in DOMAIN refreshes :
        /\ refreshes[r].pc = "workers"
        /\ DOMAIN refreshes[r].out = CampaignIds
        /\ refreshes[r].out[1] = Undefined
        /\ \E id \in CampaignIds : refreshes[r].out[id] # Undefined

\* every per-campaign call of refresh r failed or returned nothing
NothingObtained(r) ==
    /\ refreshes[r].pc = "workers"
    /\ \A id \in DOMAIN refreshes[r].out : refreshes[r].out[id] = Undefined

\* C23: a refresh that obtained no per-campaign stats leaves statsByCampaignId
\* and updatedAt of the entry as they were, so the entry is still stale.
C23_NothingObtainedKeepsEntry ==
    [][\A r \in DOMAIN refreshes :
        (Finishes(r) /\ NothingObtained(r)) =>
            /\ heyreachStatsCache'[refreshes[r].key].statsByCampaignId =
                    refreshes[r].existing.statsByCampaignId
            /\ heyreachStatsCache'[refreshes[r].key].updatedAt =
                    refreshes[r].existing.updatedAt]_vars

(***************************************************************************)
(* Claims about getFilteredRepliesStreamPage, checked under SpecReplies.   *)
(***************************************************************************)
\* C5: under any interleaving of calls for one key, no raw page index is
\* obtained from the upstream more than once for one entry object (a request
\* that failed and is asked again does not count).
C5_NoRawPageTwice ==
    \A x \in BagToSet(rawRequests) : CopiesIn(x, rawRequests) = 1

IsPrefix(s, t) == Len(s) <= Len(t) /\ SubSeq(t, 1, Len(s)) = s

\* C10: within the lifetime of an entry object its nextRawPage never decreases
\* and its rows only grow at the end: what is buffered stays, in place and in
\* order.
C10_CursorAndRowsMonotonic ==
    [][\A id \in 1..Len(entries) :
          /\ entries'[id].nextRawPage >= entries[id].nextRawPage
          /\ IsPrefix(entries[id].rows, entries'[id].rows)]_vars

\* Page 2 was answered from an entry that consumed several raw pages.
C10_Witness ==
    \E c \in StreamCallers :
        /\ calls[c].pc = "done"
        /\ calls[c].page = 2
        /\ entries[calls[c].entry].nextRawPage > 2
        /\ Len(entries[calls[c].entry].rows) > 3


\* call c issues a raw-page request in this step
Requests(c) == calls'[c].pc = "awaiting" /\ calls'[c] # calls[c]

\* C11: an entry object whose exhausted flag is set keeps it set, and from then
\* on no call issues a raw-page request for that object, whatever page is asked.
C11_ExhaustionShortCircuit ==
    [][\A id \in 1..Len(entries) :
          entries[id].exhausted =>
              /\ entries'[id].exhausted
              /\ \A c \in StreamCallers : Requests(c) => calls'[c].entry # id]_vars

\* A page beyond the buffer was asked of an exhausted, live entry and answered
\* without an upstream request.
C11_Witness ==
    \E c \in StreamCallers :
        /\ calls[c].pc = "done"
        /\ entries[calls[c].entry].exhausted
        /\ entries[calls[c].entry].expiresAt > now
        /\ calls[c].page * calls[c].perPage > Len(entries[calls[c].entry].rows)
        /\ entries[calls[c].entry].scannedPages < getRepliesMaxRawPages


\* the ids of the rows of one returned page
IdsOf(rows) == {rows[i].id : i \in 1..Len(rows)}

\* C12: for two pages returned from one entry object, no row is on both, and
\* the first row of page N+1 is not newer than the last row of page N (rows
\* that carry a date), in whatever order and overlap the pages were asked.
C12_StablePageOrdering ==
    \A c1, c2 \in StreamCallers :
        (/\ calls[c1].pc = "done" /\ calls[c2].pc = "done"
         /\ calls[c1].entry = calls[c2].entry
         /\ calls[c1].page < calls[c2].page)
        => /\ IdsOf(calls[c1].rows) \cap IdsOf(calls[c2].rows) = {}
           /\ (/\ calls[c2].page = calls[c1].page + 1
               /\ calls[c1].rows # <<>> /\ calls[c2].rows # <<>>
               /\ calls[c1].rows[Len(calls[c1].rows)].ms # 0
               /\ calls[c2].rows[1].ms # 0)
              => calls[c2].rows[1].ms <= calls[c1].rows[Len(calls[c1].rows)].ms


\* The reference list: the rows of raw pages 1..n that pass the window and the
\* predicate, in feed order.
RECURSIVE MatchingUpTo(_)
MatchingUpTo(n) ==
    IF n = 0 THEN <<>> ELSE MatchingUpTo(n - 1) \o SelectSeq(RawPage(n), Matches)

\* a raw page that is empty or whose last row predates the window start
StopsAt(n) == RawPage(n) = <<>> \/ CrossesStart(RawPage(n))

\* m: the first such raw page
StopPage ==
    CHOOSE n \in 1..(Len(feed) + 1) : StopsAt(n) /\ \A k \in 1..(n - 1) : ~StopsAt(k)

\* elements [(p-1)*s, p*s) of list F
ElementsOf(F, p, s) == SubSeq(F, (p - 1) * s + 1, Min(p * s, Len(F)))

\* no raw page was obtained twice for entry object id
ServedOnce(id) ==
    \A x \in BagToSet(rawRequests) : x[1] = id => CopiesIn(x, rawRequests) = 1

Returns(c) == calls'[c].pc = "done" /\ calls[c].pc # "done"

\* C14: the hasMore a call returns is true exactly when rows are buffered
\* beyond the end of the requested page, or the entry is not exhausted and its
\* scanned raw-page count is below the cap.
C14_HasMore ==
    [][\A c \in StreamCallers :
          Returns(c) =>
              LET e == entries'[calls'[c].entry]
                  pageEnd == calls'[c].page * calls'[c].perPage
              IN  calls'[c].hasMore <=>
                      \/ Len(e.rows) > pageEnd
                      \/ (~e.exhausted /\ e.scannedPages < getRepliesMaxRawPages)]_vars

\* A page reaching the end of the buffer of an exhausted entry came back
\* without hasMore, while another came back with hasMore from an entry that
\* can still be scanned.
C14_Witness ==
    \E c1, c2 \in StreamCallers :
        /\ calls[c1].pc = "done" /\ ~calls[c1].hasMore
        /\ entries[calls[c1].entry].exhausted
        /\ calls[c1].page * calls[c1].perPage >= Len(entries[calls[c1].entry].rows)
        /\ calls[c2].pc = "done" /\ calls[c2].hasMore
        /\ calls[c2].page * calls[c2].perPage >= Len(entries[calls[c2].entry].rows)


\* C15: a raw-page fetch that fails while the entry already holds buffered
\* rows is not surfaced to the caller as an error; the call fails only when
\* nothing was ever buffered.
C15_FailureAbsorbed ==
    [][\A c \in StreamCallers :
          (calls[c].pc = "awaiting" /\ calls'[c].pc = "failed")
          => entries[calls[c].entry].rows = <<>>]_vars


\* C24: the scannedPages of every entry object is at most the scan cap, also
\* when calls for the key overlap.
C24_ScanCap ==
    \A id \in 1..Len(entries) : entries[id].scannedPages <= getRepliesMaxRawPages

\* the awaited raw page of call c is not empty and its last row is dated
\* before the window start
AwaitsCrossingPage(c) ==
    /\ calls[c].pc = "awaiting"
    /\ RawPage(calls[c].raw) # <<>>
    /\ RawPage(calls[c].raw)[Len(RawPage(calls[c].raw))].ms # 0
    /\ RawPage(calls[c].raw)[Len(RawPage(calls[c].raw))].ms < startMs

\* a raw page crossing the window start was obtained for entry object id
CrossingPageServed(id) ==
    \E x \in BagToSet(rawRequests) :
        /\ x[1] = id
        /\ RawPage(x[2]) # <<>>
        /\ RawPage(x[2])[Len(RawPage(x[2]))].ms # 0
        /\ RawPage(x[2])[Len(RawPage(x[2]))].ms < startMs

C28_ContiguousConsumption ==
    \A id \in 1..Len(entries) :
        (\A c \in StreamCallers : ~(calls[c].pc = "awaiting" /\ calls[c].entry = id))
        => /\ entries[id].rows = MatchingUpTo(entries[id].nextRawPage - 1)
           /\ entries[id].scannedPages = entries[id].nextRawPage - 1

\* C29: a raw-page fetch that fails leaves the entry as it was, and every
\* request asks for the raw page index the entry's cursor points at, so the
\* page of the failed fetch is asked for again and none is lost.
C29_FailedFetchKeepsEntry ==
    [][\A c \in StreamCallers :
          /\ (calls[c].pc = "awaiting" /\ calls'[c].pc = "failed")
                => entries'[calls[c].entry] = entries[calls[c].entry]
          /\ Requests(c)
                => calls'[c].raw = entries'[calls'[c].entry].nextRawPage]_vars

\* A call failed at its fetch while the only entry has consumed nothing, and
\* another call is asking for raw page 1.
C29_Witness ==
    \E c1, c2 \in StreamCallers :
        /\ calls[c1].pc = "failed"
        /\ calls[c2].pc = "awaiting" /\ calls[c2].raw = 1
        /\ Len(entries) = 1
        /\ entries[1].scannedPages = 0 /\ entries[1].nextRawPage = 1
        /\ rawRequests = EmptyBag

(***************************************************************************)
(* Claims about the replies cache and several clients, under SpecTenants.  *)
(***************************************************************************)
\* C26: the rows a call returns were fetched with the API key of the instance
\* the call runs on: the entry it is answered from was filled with that key only.
C26_ClientIsolation ==
    \A c \in StreamCallers :
        (calls[c].pc = "done" /\ calls[c].rows # <<>>)
        => entries[calls[c].entry].keys \subseteq {calls[c].apiKey}

(***************************************************************************)
(* Claims about one dashboard refresh, checked under SpecDashboard.        *)
(***************************************************************************)
\* fetchClientMetrics obtained the HeyReach campaign list for the window and
\* the value built from it is still served from the cache
ListFetched ==
    \E k \in DOMAIN cache :
        "heyreach" \in cache[k].value.metrics /\ cache[k].expiresAt > now

\* svc.getCampaigns() of refresh r returns the list in this step
WarmerGetsList(r) ==
    /\ r \in DOMAIN refreshes /\ refreshes[r].pc = "getCampaigns"
    /\ r \in DOMAIN refreshes' /\ refreshes'[r].pc \in {"bearer", "workers"}

\* C16: within one dashboard refresh the HeyReach campaign list is obtained
\* once: after fetchClientMetrics got it, the warmer started by the same
\* refresh does not obtain it again.
C16_CampaignListOnce ==
    [][ListFetched => \A r \in 1..MaxRefreshes : ~WarmerGetsList(r)]_vars

\* C17: requests that carry no stats opt-in never start a stats refresh, and
\* so never a per-campaign stats call.
C17_StatsOffByDefault == refreshed = 0 /\ refreshes = <<>>


(***************************************************************************)
(* Claims about the dashboard page, checked under SpecPage.                *)
(***************************************************************************)
Newest(r) == r \in 1..Len(runs) /\ runs[r].seq = refreshSeq

SettlesNow(r) == r \in 1..Len(runs) /\ runs[r].pc = "awaiting" /\ runs'[r].pc = "done"

\* C30: when refresh() runs overlap, a run that settles after a newer run
\* started changes nothing on the page; whatever is drawn or reported comes
\* from the run started last; and once that run has settled the refresh
\* button is enabled.
C30_LastRefreshWins ==
    /\ [][\A r \in 1..MaxRuns :
            SettlesNow(r) =>
                /\ ~Newest(r) => ui' = ui
                /\ ui' # ui => /\ ui'.status.seq = refreshSeq
                               /\ ui'.shown \in {ui.shown, refreshSeq}]_vars
    /\ [](\A r \in 1..MaxRuns : (Newest(r) /\ runs[r].pc = "done") => ~ui.disabled)

\* Run 1 came back with usable results after run 2 had started and nothing of
\* it was drawn; run 2 then settled, drew its results and enabled the button.
C30_Witness ==
    /\ Len(runs) >= 2
    /\ runs[1].pc = "done" /\ runs[1].got = "ok" /\ runs[1].returnedEarly
    /\ runs[2].pc = "done" /\ runs[2].got = "ok"
    /\ refreshSeq = 2
    /\ ui.shown = 2
    /\ ui.status = Status("updated", 2)
    /\ ~ui.disabled

=============================================================================
